---------------------------- MODULE Spec2Model ----------------------------
(***************************************************************************)
(* Model of the kiwoom weekly-option auto trader.                          *)
(*                                                                         *)
(*   src/main.py        AutoTrader: start/stop (main thread) and the       *)
(*                      trading_loop (daemon thread)                       *)
(*   src/kiwoom_api.py  KiwoomAPI.smart_order / send_order                 *)
(*   src/strategy.py    OptionTradingStrategy (signal evaluator)           *)
(*                                                                         *)
(* Prices of main.py and kiwoom_api.py are integers (won).  The broker     *)
(* (pykiwoom) is the environment: every value it returns is an input       *)
(* drawn from a small set, every call of it may fail.                      *)
(*                                                                         *)
(* main.py reads Config.STOP_LOSS_PCT and calls                            *)
(* OptionTradingStrategy.check_buy_signal(df); neither is defined in       *)
(* src/config.py or src/strategy.py.  The model takes STOP_LOSS_PCT from   *)
(* the 'stop_loss_percent' entry of src/config.py, takes the result of     *)
(* check_buy_signal(df) as an input, and keeps the exception path of every *)
(* try block (BuyEval/SellEval with raised = TRUE).                        *)
(* calculate_order_quantity reads Config.MAX_INVESTMENT_PER_TRADE and      *)
(* Config.MAX_QUANTITY_PER_TRADE, which src/config.py does not define      *)
(* either: its result is max(1, ...) or the 1 of its except branch, an     *)
(* input of 1..MaxQuantity.  AutoTrader.__init__ passes two arguments to   *)
(* OptionTradingStrategy, whose __init__ takes none; the model starts      *)
(* from the state the assignments of AutoTrader.__init__ describe.         *)
(***************************************************************************)
EXTENDS Integers, Sequences, FiniteSets, TLC

VARIABLES
    \* ---- AutoTrader (src/main.py)
    is_running,          \* AutoTrader.is_running
    selected_options,    \* AutoTrader.selected_options: sequence of options
    positions,           \* AutoTrader.positions: dict, in insertion order
    positions_to_close,  \* local list of check_sell_signals
    mpc,                 \* main thread: position in main()/start()/stop()
    tpc,                 \* trading thread: position in trading_loop()
    idx,                 \* index of the running for loop (1-based)
    now,                 \* is_market_open local now: the clock reading
    config,              \* AutoTrader.config: the Config class of config.py
    \* ---- KiwoomAPI (src/kiwoom_api.py)
    api,                 \* broker connection: connect() / disconnect()
    current_positions,   \* KiwoomAPI.current_positions
    order_history,       \* KiwoomAPI.order_history
    so_code,             \* smart_order argument code
    order_type,          \* smart_order argument order_type
    so_quantity,         \* smart_order argument quantity
    current_price,       \* smart_order local current_price
    bid_price,           \* smart_order local bid_price
    ask_price,           \* smart_order local ask_price
    base_price,          \* smart_order local base_price
    attempt,             \* smart_order loop variable attempt
    submitted,           \* prices handed to send_order in this invocation
    results,             \* what each send_order of this invocation returned
    send_outcome,        \* what the last send_order met at the broker
    so_result,           \* return value of the last smart_order
    \* ---- history
    failed_sells,        \* positions whose SELL returned False in this cycle
    fault,               \* how the last pass ended early: "raised" (caught by
                         \* the pass's except), "no_data" (continue after a
                         \* fetch), "loop_error" (caught by trading_loop);
                         \* kept until the next pass or iteration decides
    logged_pnl,          \* execute_sell_order locals current_price and pnl as
                         \* logged after a SELL that returned True: <<>> is
                         \* nothing logged; kept until the next pass
    \* ---- OptionTradingStrategy (src/strategy.py)
    position,            \* self.position: <<>> is None, else <<record>>
    entry_price,         \* self.entry_price
    entry_time,          \* self.entry_time: "None" or "set"
    price_data,          \* self.price_data: the close column
    signal,              \* what the last get_signal returned
    enter_call           \* the enter_position call just made: its price
                         \* argument and what it returned; <<>> once another
                         \* method of the strategy has been called

traderVars == <<is_running, selected_options, positions, positions_to_close,
                mpc, tpc, idx, now, failed_sells, fault>>
orderVars  == <<so_code, order_type, so_quantity, current_price, bid_price,
                ask_price, base_price, attempt, submitted, results, send_outcome,
                so_result>>
traderVars_but_tpc == <<is_running, selected_options, positions,
                        positions_to_close, mpc, idx, now, failed_sells, fault>>
strategyVars == <<position, entry_price, entry_time, price_data, signal,
                  enter_call>>
apiRecords == <<current_positions, order_history>>
vars == <<traderVars, api, apiRecords, orderVars, strategyVars, config, logged_pnl>>

--------------------------------------------------------------------------
(* Bounds of the model *)

MaxOptions == 2          \* number of instruments select_trading_options returns
MaxQuantity == 2         \* largest quantity calculate_order_quantity returns

(* Program constants *)

MaxAttempts == 5         \* smart_order(max_attempts=5)
PriceStep == 5           \* attempt * 5
STOP_LOSS_PCT == 10      \* 'stop_loss_percent': 10
ExitMAWindow == 10       \* rolling(window=10), len(df) < 10
MinBuyBars == 100        \* len(df) < 100
BandLow == 100           \* 100 <= price <= 300
BandHigh == 300

--------------------------------------------------------------------------
(* Inputs *)

Codes == 1..MaxOptions

\* option['current_price'] at selection time: get_option_info drops
\* prices <= 100; 200 is inside the 100..300 band, 350 is a fallback option.
OptionPrices == {200, 350}

InBand(p) == BandLow <= p /\ p <= BandHigh

\* select_trading_options: the in-band options when there is one, else the
\* fallback (out of band) options; codes are distinct.
OptionLists ==
    { l \in UNION { [1..n -> [code : Codes, current_price : OptionPrices]]
                      : n \in 0..MaxOptions } :
        /\ \A i \in DOMAIN l : l[i].code = i
        /\ \/ \A i \in DOMAIN l : InBand(l[i].current_price)
           \/ \A i \in DOMAIN l : ~InBand(l[i].current_price) }

\* get_current_price: int(data['현재가']), 0 when the fetch fails
CurrentPrices == {0, 180, 200}
\* get_bid_ask_price: 0 when unavailable
BidPrices == {0, 100}
AskPrices == {0, 100}

\* get_minute_data(code, count=200) for the entry check: number of bars
BuyBarCounts == {0, 99, 100, 200}

\* get_minute_data(code, count=50) for the exit check: the close column
SellCloses ==
    { [i \in 1..n |-> IF i = n THEN last ELSE 200] :
        n \in {0, 9, 10, 12}, last \in {170, 200, 210} }

OrderQuantities == 1..MaxQuantity

\* Config.MAX_INVESTMENT_PER_TRADE as calculate_order_quantity reads it
\* (src/config.py does not define it): an input
AvailableCash == { 350 * k : k \in 0..MaxQuantity }

calculate_order_quantity_NoFloor(raised, available_cash, price) ==
    IF raised \/ price = 0 THEN 1
    ELSE LET wanted == available_cash \div price
         IN  IF wanted <= MaxQuantity THEN wanted ELSE MaxQuantity

\* calculate_order_quantity: max(1, min(available_cash // price,
\* MAX_QUANTITY_PER_TRADE)); the except branch (get_balance or a Config
\* attribute raised, or price is 0) returns 1.
calculate_order_quantity(raised, available_cash, price) ==
    IF raised \/ price = 0 THEN 1
    ELSE LET wanted == available_cash \div price
             capped == IF wanted <= MaxQuantity THEN wanted ELSE MaxQuantity
         IN  IF capped >= 1 THEN capped ELSE 1

SendOutcomes == {"ack", "rejected", "raised"}

\* now outside a call of is_market_open: the local does not exist
NoTime == [weekday |-> -1, minute |-> -1]

--------------------------------------------------------------------------
(* Python dict self.positions, in insertion order *)

Range(s) == { s[i] : i \in DOMAIN s }

HasPosition(d, code) == \E i \in DOMAIN d : d[i].code = code

DictSet(d, rec) ==
    IF HasPosition(d, rec.code)
    THEN [i \in DOMAIN d |-> IF d[i].code = rec.code THEN rec ELSE d[i]]
    ELSE Append(d, rec)

DictDelAll(d, codes) == SelectSeq(d, LAMBDA r : r.code \notin Range(codes))

RECURSIVE Sum(_)
Sum(s) == IF s = <<>> THEN 0 ELSE Head(s) + Sum(Tail(s))

--------------------------------------------------------------------------
(* src/config.py: the settings validate_config reads.  Option prices are   *)
(* in hundredths (0.1 is 10), ACCOUNT_NO is the string itself.             *)

Config ==
    [ ACCOUNT_NO        |-> "7028-1544",
      MIN_OPTION_PRICE  |-> 10,
      MAX_OPTION_PRICE  |-> 30,
      period1           |-> 5,
      period2           |-> 20,
      period3           |-> 60,
      stop_loss_percent |-> 10 ]

\* config.py as an operator of the installation may have edited it: the
\* file of src/ and one edit of each setting validate_config looks at.
Configs ==
    {Config}
    \cup { [Config EXCEPT !.ACCOUNT_NO = a] : a \in {"", "7028-15"} }
    \cup { [Config EXCEPT !.MIN_OPTION_PRICE = 30] }
    \cup { [Config EXCEPT !.period1 = 20] }
    \cup { [Config EXCEPT !.period2 = 60] }
    \cup { [Config EXCEPT !.stop_loss_percent = p] : p \in {0, 50, 51} }

\* validate_config(): TRUE is "return True", FALSE is "raise ValueError"
\* (the list errors is not empty).
validate_config(cfg) ==
    LET account_error == cfg.ACCOUNT_NO = "" \/ Len(cfg.ACCOUNT_NO) < 8
        price_error   == cfg.MIN_OPTION_PRICE >= cfg.MAX_OPTION_PRICE
        period1_error == cfg.period1 >= cfg.period2
        period2_error == cfg.period2 >= cfg.period3
        stop_error    == cfg.stop_loss_percent <= 0 \/ cfg.stop_loss_percent > 50
    IN  ~(account_error \/ price_error \/ period1_error \/ period2_error
          \/ stop_error)

--------------------------------------------------------------------------
AutoTraderInit ==
    /\ is_running = FALSE
    /\ selected_options = <<>>
    /\ positions = <<>>
    /\ positions_to_close = <<>>
    /\ mpc = "main"
    /\ tpc = "unstarted"
    /\ idx = 0
    /\ now = NoTime
    /\ failed_sells = {}
    /\ fault = "none"
    /\ logged_pnl = <<>>
    /\ api = "unconnected"
    /\ current_positions = <<>>
    /\ order_history = <<>>
    /\ so_code = 0
    /\ order_type = "NONE"
    /\ so_quantity = 0
    /\ current_price = 0
    /\ bid_price = 0
    /\ ask_price = 0
    /\ base_price = 0
    /\ attempt = 0
    /\ submitted = <<>>
    /\ results = <<>>
    /\ send_outcome = "none"
    /\ so_result = "none"
    /\ position = <<>>
    /\ entry_price = 0
    /\ entry_time = "None"
    /\ price_data = <<>>
    /\ signal = "none"
    /\ enter_call = <<>>

\* The program as it is in src/: Config() is the class of src/config.py.
Init ==
    /\ config = Config
    /\ AutoTraderInit


--------------------------------------------------------------------------
(* AutoTrader.start / AutoTrader.stop: the main thread *)

\* start(): initialize() (connect, select the options), is_running = True,
\* start the trading thread, then block in the Qt event loop.  When
\* initialize() fails start() returns False and main() goes to its finally.
Start ==
    /\ UNCHANGED <<config, logged_pnl, apiRecords, strategyVars, now, fault>>
    /\ mpc = "main"
    /\ \E connected \in BOOLEAN, options \in OptionLists :
         IF connected
         THEN /\ api' = "connected"
              /\ selected_options' = options
              /\ is_running' = TRUE
              /\ tpc' = "loop"
              /\ mpc' = "exec"
         ELSE /\ mpc' = "finally"
              /\ UNCHANGED <<api, selected_options, is_running, tpc>>
    /\ UNCHANGED <<positions, positions_to_close, idx, failed_sells, orderVars>>

\* stop(), first statement: self.is_running = False.  It runs from main()'s
\* finally, whenever the event loop returns (quit, KeyboardInterrupt).
StopSignal ==
    /\ UNCHANGED <<config, logged_pnl, apiRecords, strategyVars, now, fault>>
    /\ mpc \in {"exec", "finally"}
    /\ is_running' = FALSE
    /\ mpc' = "stopping"
    /\ UNCHANGED <<selected_options, positions, positions_to_close, tpc, idx,
                   failed_sells, api, orderVars>>

\* stop(), last statement: self.kiwoom.disconnect().  No join of the
\* trading thread comes before it.
StopDisconnect ==
    /\ UNCHANGED <<config, logged_pnl, apiRecords, strategyVars, now, fault>>
    /\ mpc = "stopping"
    /\ api' = "disconnected"
    /\ mpc' = "stopped"
    /\ UNCHANGED <<is_running, selected_options, positions, positions_to_close,
                   tpc, idx, failed_sells, orderVars>>

--------------------------------------------------------------------------
(* KiwoomAPI.smart_order *)

BasePriceSwapped(side, cur, bid, ask) ==
    IF side = "BUY"
    THEN (IF bid > 0 THEN bid ELSE cur)
    ELSE (IF ask > 0 THEN ask ELSE cur)

\* base_price: the ask (BUY) or the bid (SELL) when it is > 0, else the
\* current price.
BasePrice(side, cur, bid, ask) ==
    IF side = "BUY"
    THEN (IF ask > 0 THEN ask ELSE cur)
    ELSE (IF bid > 0 THEN bid ELSE cur)

OrderPriceAlwaysUp(side, base, k) == base + (k * PriceStep)

\* order_price of attempt k (0-based)
OrderPrice(side, base, k) ==
    IF side = "BUY" THEN base + (k * PriceStep) ELSE base - (k * PriceStep)

\* send_order returns True only when the broker's result is 0; a non-zero
\* result and an exception both give False.
send_order(outcome) == outcome = "ack"

LastAttemptOneShort(k) == k + 2 >= MaxAttempts

\* for attempt in range(max_attempts): attempt k is the last one
LastAttempt(k) == k + 1 >= MaxAttempts

ReturnPc(side) == IF side = "BUY" THEN "buy_return" ELSE "sell_return"

\* Entry of smart_order: get_current_price and get_bid_ask_price.
SmartOrderCall(code, side, quantity) ==
    \E cur \in CurrentPrices, bid \in BidPrices, ask \in AskPrices :
        /\ so_code' = code
        /\ order_type' = side
        /\ so_quantity' = quantity
        /\ current_price' = cur
        /\ bid_price' = bid
        /\ ask_price' = ask
        /\ base_price' = 0
        /\ attempt' = 0
        /\ submitted' = <<>>
        /\ results' = <<>>
        /\ send_outcome' = "none"
        /\ so_result' = "none"
        /\ tpc' = "seed"

\* Seed base_price from the quote and enter the loop.  bid_price and
\* ask_price are not read again: the model drops them here.  current_price
\* stays what get_current_price returned until smart_order returns.
SeedBasePrice ==
    /\ UNCHANGED <<config, logged_pnl, apiRecords, strategyVars>>
    /\ tpc = "seed"
    /\ base_price' = BasePrice(order_type, current_price, bid_price, ask_price)
    /\ bid_price' = 0
    /\ ask_price' = 0
    /\ tpc' = "order"
    /\ UNCHANGED <<traderVars_but_tpc, api, so_code, order_type, so_quantity,
                   current_price, attempt, submitted, results, send_outcome,
                   so_result>>

SendOrderNoReturn ==
    /\ UNCHANGED <<config, logged_pnl, apiRecords, strategyVars>>
    /\ tpc = "order"
    /\ \E outcome \in SendOutcomes :
         /\ submitted' = Append(submitted, OrderPrice(order_type, base_price, attempt))
         /\ results' = Append(results, send_order(outcome))
         /\ send_outcome' = outcome
         /\ IF LastAttempt(attempt)
            THEN /\ so_result' = IF send_order(outcome) THEN "true" ELSE "false"
                 /\ tpc' = ReturnPc(order_type)
                 /\ UNCHANGED attempt
            ELSE /\ attempt' = attempt + 1
                 /\ UNCHANGED <<tpc, so_result>>
    /\ UNCHANGED <<traderVars_but_tpc, api, so_code, order_type, so_quantity,
                   current_price, bid_price, ask_price, base_price>>

SendOrderKeepsHistory ==
    /\ UNCHANGED <<config, logged_pnl, current_positions, strategyVars>>
    /\ tpc = "order"
    /\ \E outcome \in SendOutcomes :
         /\ submitted' = Append(submitted, OrderPrice(order_type, base_price, attempt))
         /\ results' = Append(results, send_order(outcome))
         /\ send_outcome' = outcome
         /\ order_history' = Append(order_history, OrderPrice(order_type, base_price, attempt))
         /\ IF send_order(outcome)
            THEN /\ tpc' = "ack_wait"
                 /\ UNCHANGED <<attempt, so_result>>
            ELSE IF LastAttempt(attempt)
            THEN /\ so_result' = "false"
                 /\ tpc' = ReturnPc(order_type)
                 /\ UNCHANGED attempt
            ELSE /\ attempt' = attempt + 1
                 /\ UNCHANGED <<tpc, so_result>>
    /\ UNCHANGED <<traderVars_but_tpc, api, so_code, order_type, so_quantity,
                   current_price, bid_price, ask_price, base_price>>

\* One pass of the loop body: compute order_price, call send_order.
\* Acknowledged: go to time.sleep(2).  Otherwise next attempt, or fall out
\* of the loop and return False.
SendOrder ==
    /\ UNCHANGED <<config, logged_pnl, apiRecords, strategyVars>>
    /\ tpc = "order"
    /\ \E outcome \in SendOutcomes :
         /\ submitted' = Append(submitted, OrderPrice(order_type, base_price, attempt))
         /\ results' = Append(results, send_order(outcome))
         /\ send_outcome' = outcome
         /\ IF send_order(outcome)
            THEN /\ tpc' = "ack_wait"
                 /\ UNCHANGED <<attempt, so_result>>
            ELSE IF LastAttempt(attempt)
            THEN /\ so_result' = "false"
                 /\ tpc' = ReturnPc(order_type)
                 /\ UNCHANGED attempt
            ELSE /\ attempt' = attempt + 1
                 /\ UNCHANGED <<tpc, so_result>>
    /\ UNCHANGED <<traderVars_but_tpc, api, so_code, order_type, so_quantity,
                   current_price, bid_price, ask_price, base_price>>

\* After time.sleep(2): return True (no fill confirmation).
AckReturn ==
    /\ UNCHANGED <<config, logged_pnl, apiRecords, strategyVars>>
    /\ tpc = "ack_wait"
    /\ so_result' = "true"
    /\ tpc' = ReturnPc(order_type)
    /\ UNCHANGED <<traderVars_but_tpc, api, so_code, order_type, so_quantity,
                   current_price, bid_price, ask_price, base_price, attempt,
                   submitted, results, send_outcome>>


--------------------------------------------------------------------------
(* AutoTrader.trading_loop: the trading thread *)

\* datetime.now(): weekday (0 = Monday) and minute of the day.  "%H:%M"
\* strings of equal width compare like the minutes they denote.
Clock == [weekday : {4, 5}, minute : {539, 540, 919, 920, 921}]

MarketOpenMinute == 540      \* "09:00"
MarketCloseMinute == 920     \* "15:20"

is_market_open(t) ==
    IF t.weekday >= 5
    THEN FALSE
    ELSE MarketOpenMinute <= t.minute /\ t.minute <= MarketCloseMinute

\* while self.is_running: false, the loop ends
LoopExit ==
    /\ UNCHANGED <<config, logged_pnl, apiRecords, strategyVars>>
    /\ tpc = "loop"
    /\ ~is_running
    /\ tpc' = "done"
    /\ UNCHANGED <<traderVars_but_tpc, api, orderVars>>

\* while self.is_running: true, the body calls is_market_open, whose first
\* statement is now = datetime.now()
ReadClock ==
    /\ UNCHANGED <<config, logged_pnl, apiRecords, strategyVars>>
    /\ tpc = "loop"
    /\ is_running
    /\ \E t \in Clock : now' = t
    /\ tpc' = "gate"
    /\ UNCHANGED <<is_running, selected_options, positions, positions_to_close,
                   mpc, idx, failed_sells, fault, api, orderVars>>

\* is_market_open returned False: time.sleep(60), continue
MarketClosed ==
    /\ UNCHANGED <<config, logged_pnl, apiRecords, strategyVars>>
    /\ tpc = "gate"
    /\ ~is_market_open(now)
    /\ now' = NoTime
    /\ tpc' = "sleep"
    /\ fault' = "none"
    /\ UNCHANGED <<is_running, selected_options, positions, positions_to_close,
                   mpc, idx, failed_sells, api, orderVars>>

\* is_market_open returned True: enter check_buy_signals
CycleStart ==
    /\ UNCHANGED <<config, logged_pnl, apiRecords, strategyVars>>
    /\ tpc = "gate"
    /\ is_market_open(now)
    /\ now' = NoTime
    /\ tpc' = "buy"
    /\ idx' = 1
    /\ failed_sells' = {}
    /\ fault' = "none"
    /\ UNCHANGED <<is_running, selected_options, positions, positions_to_close,
                   mpc, api, orderVars>>

WakeIntoCycle ==
    /\ UNCHANGED <<config, logged_pnl, apiRecords, strategyVars>>
    /\ tpc = "sleep"
    /\ tpc' = "buy"
    /\ idx' = 1
    /\ UNCHANGED <<is_running, selected_options, positions, positions_to_close,
                   mpc, now, failed_sells, fault, api, orderVars>>

\* End of time.sleep(...): back to the loop condition
Wake ==
    /\ UNCHANGED <<config, logged_pnl, apiRecords, strategyVars>>
    /\ tpc = "sleep"
    /\ tpc' = "loop"
    /\ UNCHANGED <<traderVars_but_tpc, api, orderVars>>

LoopErrorBreaks ==
    /\ UNCHANGED <<config, apiRecords, strategyVars, now>>
    /\ logged_pnl' = <<>>
    /\ tpc \in {"buy", "sell"}
    /\ tpc' = "done"
    /\ fault' = "loop_error"
    /\ idx' = 0
    /\ positions_to_close' = <<>>
    /\ UNCHANGED <<is_running, selected_options, positions, mpc, failed_sells,
                   api, orderVars>>

\* except Exception in trading_loop: an exception that left
\* check_buy_signals or check_sell_signals (raised outside the try of a
\* pass, e.g. by a logger call) is logged, then time.sleep(30).
LoopError ==
    /\ UNCHANGED <<config, apiRecords, strategyVars, now>>
    /\ logged_pnl' = <<>>
    /\ tpc \in {"buy", "sell"}
    /\ tpc' = "sleep"
    /\ fault' = "loop_error"
    /\ idx' = 0
    /\ positions_to_close' = <<>>
    /\ UNCHANGED <<is_running, selected_options, positions, mpc, failed_sells,
                   api, orderVars>>

\* smart_order has returned and its caller has used the result: the
\* arguments and locals of the invocation are gone.
OrderLocalsGone ==
    /\ so_code' = 0
    /\ order_type' = "NONE"
    /\ so_quantity' = 0
    /\ current_price' = 0
    /\ bid_price' = 0
    /\ ask_price' = 0
    /\ base_price' = 0
    /\ attempt' = 0
    /\ submitted' = <<>>
    /\ results' = <<>>
    /\ send_outcome' = "none"
    /\ so_result' = "none"

(* check_buy_signals / execute_buy_order *)

HeldNever(code) == FALSE

\* if code in self.positions: continue
Held(code) == HasPosition(positions, code)

\* continue, or the end of the except block: on to the next option
BuySkip(how) ==
    /\ idx' = idx + 1
    /\ fault' = how
    /\ UNCHANGED <<tpc, orderVars>>

BuyEvalRecordsFirst ==
    /\ UNCHANGED <<config, logged_pnl, apiRecords, strategyVars, now>>
    /\ tpc = "buy"
    /\ idx <= Len(selected_options)
    /\ LET option == selected_options[idx] IN
       IF Held(option.code) THEN BuySkip("none") /\ UNCHANGED positions
       ELSE \E raised \in BOOLEAN :
         IF raised THEN BuySkip("raised") /\ UNCHANGED positions
         ELSE \E bars \in BuyBarCounts :
           IF bars < MinBuyBars THEN BuySkip("no_data") /\ UNCHANGED positions
           ELSE \E buy_signal \in BOOLEAN :
             IF ~buy_signal THEN BuySkip("none") /\ UNCHANGED positions
             ELSE \E sizing_raised \in BOOLEAN, available_cash \in AvailableCash :
                  LET quantity == calculate_order_quantity(
                                    sizing_raised, available_cash,
                                    option.current_price) IN
                  /\ SmartOrderCall(option.code, "BUY", quantity)
                  /\ fault' = "none"
                  /\ UNCHANGED idx
                  /\ positions' = DictSet(positions, [code |-> option.code,
                                                   quantity |-> quantity,
                                                   entry_price |-> option.current_price])
    /\ UNCHANGED <<is_running, selected_options, positions_to_close,
                   mpc, failed_sells, api>>

\* One pass of the for loop of check_buy_signals, up to the call of
\* smart_order in execute_buy_order.  raised: an exception inside the try.
BuyEval ==
    /\ UNCHANGED <<config, logged_pnl, apiRecords, strategyVars, now>>
    /\ tpc = "buy"
    /\ idx <= Len(selected_options)
    /\ LET option == selected_options[idx] IN
       IF Held(option.code) THEN BuySkip("none")
       ELSE \E raised \in BOOLEAN :
         IF raised THEN BuySkip("raised")
         ELSE \E bars \in BuyBarCounts :
           IF bars < MinBuyBars THEN BuySkip("no_data")
           ELSE \E buy_signal \in BOOLEAN :
             IF ~buy_signal THEN BuySkip("none")
             ELSE \E sizing_raised \in BOOLEAN, available_cash \in AvailableCash :
                  LET quantity == calculate_order_quantity(
                                    sizing_raised, available_cash,
                                    option.current_price) IN
                  /\ SmartOrderCall(option.code, "BUY", quantity)
                  /\ fault' = "none"
                  /\ UNCHANGED idx
    /\ UNCHANGED <<is_running, selected_options, positions, positions_to_close,
                   mpc, failed_sells, api>>

BuyReturnSpeculative ==
    /\ UNCHANGED <<config, logged_pnl, apiRecords, strategyVars, now, fault>>
    /\ tpc = "buy_return"
    /\ LET option == selected_options[idx] IN
       positions' = DictSet(positions, [code |-> option.code,
                                        quantity |-> so_quantity,
                                        entry_price |-> option.current_price])
    /\ idx' = idx + 1
    /\ tpc' = "buy"
    /\ OrderLocalsGone
    /\ UNCHANGED <<is_running, selected_options, positions_to_close, mpc,
                   failed_sells, api>>

\* execute_buy_order after smart_order returned: record the position when
\* it returned True.
BuyReturn ==
    /\ UNCHANGED <<config, logged_pnl, apiRecords, strategyVars, now, fault>>
    /\ tpc = "buy_return"
    /\ LET option == selected_options[idx] IN
       positions' =
         IF so_result = "true"
         THEN DictSet(positions, [code |-> option.code,
                                  quantity |-> so_quantity,
                                  entry_price |-> option.current_price])
         ELSE positions
    /\ idx' = idx + 1
    /\ tpc' = "buy"
    /\ OrderLocalsGone
    /\ UNCHANGED <<is_running, selected_options, positions_to_close, mpc,
                   failed_sells, api>>

\* End of check_buy_signals: enter check_sell_signals
BuyPhaseEnd ==
    /\ UNCHANGED <<config, logged_pnl, apiRecords, strategyVars, now>>
    /\ tpc = "buy"
    /\ idx > Len(selected_options)
    /\ tpc' = "sell"
    /\ idx' = 1
    /\ positions_to_close' = <<>>
    /\ fault' = "none"
    /\ UNCHANGED <<is_running, selected_options, positions, mpc, failed_sells,
                   api, orderVars>>

(* check_sell_signals / execute_sell_order *)

LastN(s, n) == SubSeq(s, Len(s) - n + 1, Len(s))

\* latest_close < latest_ma10, the mean of the last 10 closes
TrendExit(closes) ==
    closes[Len(closes)] * ExitMAWindow < Sum(LastN(closes, ExitMAWindow))

\* loss_pct = (entry_price - current_price) / entry_price * 100
\* loss_pct >= STOP_LOSS_PCT
StopLoss(entry, cur) == (entry - cur) * 100 >= STOP_LOSS_PCT * entry

\* sell_reason after the two tests of check_sell_signals: "" at first, the
\* trend reason when the close is below the average, then the stop-loss
\* reason when the loss reaches STOP_LOSS_PCT.  should_sell is set exactly
\* when sell_reason is.
SellReason(closes, entry, cur) ==
    LET after_trend == IF TrendExit(closes) THEN "trend_exit" ELSE ""
    IN  IF StopLoss(entry, cur) THEN "stop_loss" ELSE after_trend

SellSkipStaysOnInstrument(how) ==
    /\ idx' = idx
    /\ fault' = how
    /\ UNCHANGED <<tpc, orderVars>>

SellSkip(how) ==
    /\ idx' = idx + 1
    /\ fault' = how
    /\ UNCHANGED <<tpc, orderVars>>

\* One pass of the for loop of check_sell_signals, up to the call of
\* smart_order in execute_sell_order.
SellEval ==
    /\ UNCHANGED <<config, apiRecords, strategyVars, now>>
    /\ logged_pnl' = <<>>
    /\ tpc = "sell"
    /\ idx <= Len(positions)
    /\ LET held == positions[idx] IN
       \E raised \in BOOLEAN :
         IF raised THEN SellSkip("raised")
         ELSE \E cur \in CurrentPrices :
           IF cur = 0 THEN SellSkip("no_data")
           ELSE \E closes \in SellCloses :
             IF Len(closes) < ExitMAWindow THEN SellSkip("no_data")
             ELSE IF SellReason(closes, held.entry_price, cur) # ""
             THEN /\ SmartOrderCall(held.code, "SELL", held.quantity)
                  /\ fault' = "none"
                  /\ UNCHANGED idx
             ELSE SellSkip("none")
    /\ UNCHANGED <<is_running, selected_options, positions, positions_to_close,
                   mpc, failed_sells, api>>

SellReturnSamePosition ==
    /\ UNCHANGED <<config, apiRecords, strategyVars, now, fault>>
    /\ tpc = "sell_return"
    /\ \E cur \in CurrentPrices :
         logged_pnl' =
           IF so_result = "true"
           THEN <<[current_price |-> cur,
                   pnl |-> (cur - positions[idx].entry_price)
                             * positions[idx].quantity]>>
           ELSE <<>>
    /\ positions_to_close' = Append(positions_to_close, positions[idx].code)
    /\ failed_sells' = IF so_result = "false"
                       THEN failed_sells \cup {positions[idx]}
                       ELSE failed_sells
    /\ idx' = idx
    /\ tpc' = "sell"
    /\ OrderLocalsGone
    /\ UNCHANGED <<is_running, selected_options, positions, mpc, api>>

\* execute_sell_order after smart_order returned: when it returned True,
\* get_current_price again and log pnl = (current_price - entry_price) *
\* quantity.  Then, back in check_sell_signals (execute_sell_order returns
\* nothing): positions_to_close.append(code)
SellReturn ==
    /\ UNCHANGED <<config, apiRecords, strategyVars, now, fault>>
    /\ tpc = "sell_return"
    /\ \E cur \in CurrentPrices :
         logged_pnl' =
           IF so_result = "true"
           THEN <<[current_price |-> cur,
                   pnl |-> (cur - positions[idx].entry_price)
                             * positions[idx].quantity]>>
           ELSE <<>>
    /\ positions_to_close' = Append(positions_to_close, positions[idx].code)
    /\ failed_sells' = IF so_result = "false"
                       THEN failed_sells \cup {positions[idx]}
                       ELSE failed_sells
    /\ idx' = idx + 1
    /\ tpc' = "sell"
    /\ OrderLocalsGone
    /\ UNCHANGED <<is_running, selected_options, positions, mpc, api>>

\* End of check_sell_signals: del self.positions[code] for every code of
\* positions_to_close; then monitor_positions and time.sleep(180).
SellPhaseEnd ==
    /\ UNCHANGED <<config, apiRecords, strategyVars, now>>
    /\ logged_pnl' = <<>>
    /\ tpc = "sell"
    /\ idx > Len(positions)
    /\ positions' = DictDelAll(positions, positions_to_close)
    /\ tpc' = "sleep"
    /\ fault' = "none"
    /\ UNCHANGED <<is_running, selected_options, positions_to_close, mpc, idx,
                   failed_sells, api, orderVars>>

--------------------------------------------------------------------------
Next ==
    \/ Start
    \/ StopSignal
    \/ StopDisconnect
    \/ LoopExit
    \/ ReadClock
    \/ MarketClosed
    \/ CycleStart
    \/ Wake
    \/ LoopError
    \/ BuyEval
    \/ BuyReturn
    \/ BuyPhaseEnd
    \/ SellEval
    \/ SellReturn
    \/ SellPhaseEnd
    \/ SeedBasePrice
    \/ SendOrder
    \/ AckReturn

Spec == Init /\ [][Next]_vars

\* The steps of the trading thread.  The thread is scheduled, time.sleep
\* returns and every broker call returns or raises: a step of the thread
\* that stays possible is taken in the end.
TradingThread ==
    \/ LoopExit
    \/ ReadClock
    \/ MarketClosed
    \/ CycleStart
    \/ Wake
    \/ BuyEval
    \/ BuyReturn
    \/ BuyPhaseEnd
    \/ SellEval
    \/ SellReturn
    \/ SellPhaseEnd
    \/ SeedBasePrice
    \/ SendOrder
    \/ AckReturn

SpecFair == Spec /\ WF_vars(TradingThread)

\* The same program started with any of the edited config.py files.
InitConfig ==
    /\ config \in Configs
    /\ AutoTraderInit

SpecConfig == InitConfig /\ [][Next]_vars

--------------------------------------------------------------------------
(* OptionTradingStrategy (src/strategy.py).  Its prices are floats; the    *)
(* model counts them in hundredths (0.20 is 20) and computes exactly, with *)
(* every comparison cross-multiplied to integers.                          *)

period1 == 5                 \* 'period1': 5
period2 == 20                \* 'period2': 20
period3 == 60                \* 'period3': 60
bollinger_period == 20       \* 'period': 20
bollinger_mult == 2          \* 'mult': 2
lookback_period == 100       \* 'lookback_period': 100
exit_ma_period == 10         \* self.exit_ma_period = 10
StopLossRatePct == 10        \* self.stop_loss_rate = 0.10
PriceRangeLow == 10          \* self.price_range = (0.1, 0.3)
PriceRangeHigh == 30
ConvergenceThresholdPct == 1 \* current_price * 0.01
SqueezeTolerancePct == 110   \* historical_min_bandwidth * 1.10

\* Inputs of update_price_data: n bars around level c, flat (a = 0) or
\* alternating c - a, c + a, possibly with another last close; and the
\* ramp 1, 2, ..., n.
SeriesLengths == {0, 9, 10, 59, 60, 99, 100, 118, 119, 150}

Shape(n, c, a) == [i \in 1..n |-> IF i % 2 = 0 THEN c + a ELSE c - a]

WithLast(s, v) == [s EXCEPT ![Len(s)] = v]

Ramp(n) == [i \in 1..n |-> i]

PriceSeries ==
    { Shape(n, c, a) : n \in SeriesLengths, c \in {20, 35}, a \in {0, 1} }
    \cup { WithLast(Shape(n, c, a), last) :
             n \in SeriesLengths \ {0}, c \in {20, 35}, a \in {0, 1},
             last \in {17, 21} }
    \cup { Ramp(n) : n \in SeriesLengths }

\* Inputs of enter_position
EntryPrices == {5, 10, 20, 30, 35}

RECURSIVE SumRange(_, _, _)
SumRange(s, a, b) == IF a > b THEN 0 ELSE s[a] + SumRange(s, a + 1, b)

RECURSIVE SumSqRange(_, _, _)
SumSqRange(s, a, b) == IF a > b THEN 0 ELSE s[a] * s[a] + SumSqRange(s, a + 1, b)

Max2(x, y) == IF x >= y THEN x ELSE y
Min2(x, y) == IF x <= y THEN x ELSE y

\* prices.rolling(window=w): the value at bar i is NaN unless the window
\* holds w observations.
RollingDefined(w, i) == i >= w

\* prices.rolling(window=w).mean() at bar i, times MAScale
MAScale == period1 * period2 * period3

RollingMeanOneBarMore(prices, w, i) == SumRange(prices, i - w, i) * (MAScale \div w)

RollingMean(prices, w, i) == SumRange(prices, i - w + 1, i) * (MAScale \div w)

ConvergenceIsNone_Period2(prices) == Len(prices) < period2

\* calculate_ma_convergence: None below period3 bars
ConvergenceIsNone(prices) == Len(prices) < period3

\* convergence_value = max_ma - min_ma at bar i, times MAScale
Convergence(prices, i) ==
    LET ma1 == RollingMean(prices, period1, i)
        ma2 == RollingMean(prices, period2, i)
        ma3 == RollingMean(prices, period3, i)
    IN  Max2(ma1, Max2(ma2, ma3)) - Min2(ma1, Min2(ma2, ma3))

\* calculate_bollinger_bands: None below 'period' bars
BandwidthIsNone(prices) == Len(prices) < bollinger_period

\* current_bandwidth = upper_band - lower_band = 2 * mult * std at bar i.
\* BandwidthSq is its square times period * (period - 1): the sample
\* variance is (period * sum(x^2) - sum(x)^2) / (period * (period - 1)).
BandwidthSq(prices, i) ==
    LET lo == i - bollinger_period + 1 IN
    (2 * bollinger_mult) * (2 * bollinger_mult)
      * (bollinger_period * SumSqRange(prices, lo, i)
           - SumRange(prices, lo, i) * SumRange(prices, lo, i))

\* historical_lowest is None when len(current_bandwidth) < lookback_period
HistoricalLowestIsNone(prices) == Len(prices) < lookback_period

\* current_bandwidth.rolling(window=lookback_period).min() at bar i: NaN
\* unless the window holds min_periods bandwidths that are not NaN.
RollingWindow(w, i) == (IF i - w + 1 < 1 THEN 1 ELSE i - w + 1)..i

RollingMinDefined(w, min_periods, i) ==
    Cardinality({ j \in RollingWindow(w, i) : RollingDefined(bollinger_period, j) })
      >= min_periods

RollingMaxSq(prices, w, i) ==
    LET obs == { BandwidthSq(prices, j) :
                   j \in { k \in RollingWindow(w, i) : RollingDefined(bollinger_period, k) } }
    IN  CHOOSE m \in obs : \A x \in obs : m >= x

RollingMinSq(prices, w, i) ==
    LET obs == { BandwidthSq(prices, j) :
                   j \in { k \in RollingWindow(w, i) : RollingDefined(bollinger_period, k) } }
    IN  CHOOSE m \in obs : \A x \in obs : m <= x

check_buy_conditions_Either(prices) ==
    LET n == Len(prices) IN
    IF n < Max2(period3, lookback_period) THEN FALSE
    ELSE IF ConvergenceIsNone(prices) THEN FALSE
    ELSE IF BandwidthIsNone(prices) \/ HistoricalLowestIsNone(prices) THEN FALSE
    ELSE
      LET condition1 ==
            Convergence(prices, n) * 100 <= prices[n] * ConvergenceThresholdPct * MAScale
          condition2 ==
            /\ RollingMinDefined(lookback_period, lookback_period, n)
            /\ BandwidthSq(prices, n) * 100
                 <= RollingMinSq(prices, lookback_period, n)
                      * ((SqueezeTolerancePct * SqueezeTolerancePct) \div 100)
      IN  condition1 \/ condition2

\* KiwoomAPI.calculate_historical_bb_width(df, lookback_period=100): df is
\* returned without the column below lookback_period bars; else the column
\* is BB_Width.rolling(window=lookback_period, min_periods=1).min().
ApiLookbackPeriod == 100

Historical_Min_BB_Width_Absent(prices) == Len(prices) < ApiLookbackPeriod

Historical_Min_BB_Width_Defined(prices, i) ==
    /\ ~Historical_Min_BB_Width_Absent(prices)
    /\ RollingMinDefined(ApiLookbackPeriod, 1, i)

\* check_buy_conditions.  condition2 compares the squares, both sides
\* divided by 100: 1.10 squared is 121 / 100.
check_buy_conditions(prices) ==
    LET n == Len(prices) IN
    IF n < Max2(period3, lookback_period) THEN FALSE
    ELSE IF ConvergenceIsNone(prices) THEN FALSE
    ELSE IF BandwidthIsNone(prices) \/ HistoricalLowestIsNone(prices) THEN FALSE
    ELSE
      LET condition1 ==
            Convergence(prices, n) * 100 <= prices[n] * ConvergenceThresholdPct * MAScale
          condition2 ==
            /\ RollingMinDefined(lookback_period, lookback_period, n)
            /\ BandwidthSq(prices, n) * 100
                 <= RollingMinSq(prices, lookback_period, n)
                      * ((SqueezeTolerancePct * SqueezeTolerancePct) \div 100)
      IN  condition1 /\ condition2

check_sell_conditions_TrendFirst(pos, entry, prices) ==
    LET n == Len(prices) IN
    IF pos = <<>> THEN "no_position"
    ELSE IF n < exit_ma_period THEN "insufficient_data"
    ELSE IF prices[n] * exit_ma_period < SumRange(prices, n - exit_ma_period + 1, n)
         THEN "trend_exit"
    ELSE IF (entry - prices[n]) * 100 >= StopLossRatePct * entry THEN "stop_loss"
    ELSE "no_sell"

check_sell_conditions_AtOrBelowMA(pos, entry, prices) ==
    LET n == Len(prices) IN
    IF pos = <<>> THEN "no_position"
    ELSE IF n < exit_ma_period THEN "insufficient_data"
    ELSE IF (entry - prices[n]) * 100 >= StopLossRatePct * entry THEN "stop_loss"
    ELSE IF prices[n] * exit_ma_period <= SumRange(prices, n - exit_ma_period + 1, n)
         THEN "trend_exit"
    ELSE "no_sell"

\* check_sell_conditions: which return statement is taken
check_sell_conditions(pos, entry, prices) ==
    LET n == Len(prices) IN
    IF pos = <<>> THEN "no_position"
    ELSE IF n < exit_ma_period THEN "insufficient_data"
    ELSE IF (entry - prices[n]) * 100 >= StopLossRatePct * entry THEN "stop_loss"
    ELSE IF prices[n] * exit_ma_period < SumRange(prices, n - exit_ma_period + 1, n)
         THEN "trend_exit"
    ELSE "no_sell"

get_signal_BuyWhileOpen(pos, entry, prices) ==
    IF check_buy_conditions(prices) THEN "BUY"
    ELSE IF pos = <<>> THEN "HOLD"
    ELSE LET reason == check_sell_conditions(pos, entry, prices) IN
         IF reason \in {"stop_loss", "trend_exit"}
         THEN (IF reason = "stop_loss" THEN "SELL_STOP_LOSS" ELSE "SELL_TREND_EXIT")
         ELSE "HOLD"

get_signal_OneSellReason(pos, entry, prices) ==
    IF pos = <<>>
    THEN (IF check_buy_conditions(prices) THEN "BUY" ELSE "HOLD")
    ELSE LET reason == check_sell_conditions(pos, entry, prices) IN
         IF reason \in {"stop_loss", "trend_exit"}
         THEN "SELL_TREND_EXIT"
         ELSE "HOLD"

\* get_signal
get_signal(pos, entry, prices) ==
    IF pos = <<>>
    THEN (IF check_buy_conditions(prices) THEN "BUY" ELSE "HOLD")
    ELSE LET reason == check_sell_conditions(pos, entry, prices) IN
         IF reason \in {"stop_loss", "trend_exit"}
         THEN (IF reason = "stop_loss" THEN "SELL_STOP_LOSS" ELSE "SELL_TREND_EXIT")
         ELSE "HOLD"

is_valid_option_price_Exclusive(price) == PriceRangeLow < price /\ price < PriceRangeHigh

\* is_valid_option_price: price_range[0] <= price <= price_range[1]
is_valid_option_price(price) == PriceRangeLow <= price /\ price <= PriceRangeHigh

UpdatePriceData ==
    /\ \E s \in PriceSeries : price_data' = s
    /\ signal' = "none"
    /\ enter_call' = <<>>
    /\ UNCHANGED <<position, entry_price, entry_time>>
    /\ UNCHANGED <<traderVars, api, apiRecords, orderVars, config, logged_pnl>>

GetSignalClosesOnSell ==
    /\ signal' = get_signal(position, entry_price, price_data)
    /\ IF signal' \in {"SELL_STOP_LOSS", "SELL_TREND_EXIT"}
       THEN /\ position' = <<>>
            /\ entry_price' = 0
            /\ entry_time' = "None"
       ELSE UNCHANGED <<position, entry_price, entry_time>>
    /\ enter_call' = <<>>
    /\ UNCHANGED price_data
    /\ UNCHANGED <<traderVars, api, apiRecords, orderVars, config, logged_pnl>>

\* get_signal: returns the signal, assigns nothing
GetSignal ==
    /\ signal' = get_signal(position, entry_price, price_data)
    /\ enter_call' = <<>>
    /\ UNCHANGED <<position, entry_price, entry_time, price_data>>
    /\ UNCHANGED <<traderVars, api, apiRecords, orderVars, config, logged_pnl>>

EnterPosition ==
    /\ \E option_code \in Codes, price \in EntryPrices :
         /\ enter_call' = << [current_price |-> price,
                              returned |-> is_valid_option_price(price)] >>
         /\ IF ~is_valid_option_price(price)
            THEN UNCHANGED <<position, entry_price, entry_time>>
            ELSE /\ position' = << [code |-> option_code, entry_price |-> price,
                                    entry_time |-> "set", quantity |-> 1] >>
                 /\ entry_price' = price
                 /\ entry_time' = "set"
    /\ UNCHANGED <<price_data, signal>>
    /\ UNCHANGED <<traderVars, api, apiRecords, orderVars, config, logged_pnl>>

ExitPositionKeepsEntryPrice ==
    /\ IF position = <<>> \/ price_data = <<>>
       THEN UNCHANGED <<position, entry_price, entry_time>>
       ELSE /\ position' = <<>>
            /\ entry_price' = entry_price
            /\ entry_time' = "None"
    /\ enter_call' = <<>>
    /\ UNCHANGED <<price_data, signal>>
    /\ UNCHANGED <<traderVars, api, apiRecords, orderVars, config, logged_pnl>>

\* exit_position: returns False without a position; with one it reads the
\* last close (an IndexError on an empty price_data leaves the state as it
\* is) and clears the three fields.
ExitPosition ==
    /\ IF position = <<>> \/ price_data = <<>>
       THEN UNCHANGED <<position, entry_price, entry_time>>
       ELSE /\ position' = <<>>
            /\ entry_price' = 0
            /\ entry_time' = "None"
    /\ enter_call' = <<>>
    /\ UNCHANGED <<price_data, signal>>
    /\ UNCHANGED <<traderVars, api, apiRecords, orderVars, config, logged_pnl>>

StrategyNext ==
    \/ UpdatePriceData
    \/ GetSignal
    \/ EnterPosition
    \/ ExitPosition

SpecStrategy == Init /\ [][StrategyNext]_vars



--------------------------------------------------------------------------
(* Properties of the trading loop and of smart_order *)

InSmartOrder == tpc \in {"seed", "order", "ack_wait"}

Returned == tpc \in {"buy_return", "sell_return"}

AllRejected == \A k \in DOMAIN results : ~results[k]

C2_PositionOnlyAfterFilledBuy ==
    [][ /\ (positions' # positions /\ Len(positions') >= Len(positions))
             => /\ tpc = "buy_return"
                /\ order_type = "BUY"
                /\ so_result = "true"
                /\ selected_options[idx].code = so_code
                /\ positions' = Append(positions,
                                  [code |-> so_code,
                                   quantity |-> so_quantity,
                                   entry_price |-> selected_options[idx].current_price])
        /\ (tpc = "buy_return" /\ so_result # "true") => positions' = positions
        /\ tpc = "buy" => positions' = positions
      ]_vars

C2_Witness ==
    /\ tpc = "buy"
    /\ idx = 2
    /\ positions # <<>>
    /\ positions[Len(positions)].code = selected_options[1].code

\* C3: the position map holds at most one position per instrument, and
\* while a BUY order is being executed for an instrument the map holds no
\* position for it.
C3_OnePositionPerInstrument ==
    /\ \A i \in DOMAIN positions : \A j \in DOMAIN positions :
          positions[i].code = positions[j].code => i = j
    /\ order_type = "BUY" => ~HasPosition(positions, so_code)

C3_Witness ==
    /\ tpc = "order"
    /\ order_type = "BUY"
    /\ submitted # <<>>
    /\ positions # <<>>

C6_LadderPrices ==
    /\ \A k \in DOMAIN submitted :
          submitted[k] = IF order_type = "BUY"
                         THEN base_price + 5 * (k - 1)
                         ELSE base_price - 5 * (k - 1)
    /\ \A k \in DOMAIN submitted : \A m \in DOMAIN submitted :
          k < m => IF order_type = "BUY"
                   THEN submitted[k] < submitted[m]
                   ELSE submitted[k] > submitted[m]
    /\ (base_price = 100 /\ Len(submitted) = 5 /\ order_type = "BUY")
          => submitted = <<100, 105, 110, 115, 120>>
    /\ (base_price = 100 /\ Len(submitted) = 5 /\ order_type = "SELL")
          => submitted = <<100, 95, 90, 85, 80>>

C6_Witness ==
    /\ order_type = "SELL"
    /\ submitted = <<100, 95, 90, 85, 80>>

\* C7: an invocation has at most one acknowledged submission, it is the
\* last submission, and smart_order returns True exactly then.
C7_FirstAckReturns ==
    /\ \A k \in DOMAIN results : results[k] => k = Len(results)
    /\ Len(results) = Len(submitted)
    /\ (results # <<>> /\ results[Len(results)])
          => (tpc = "ack_wait" \/ (Returned /\ so_result = "true"))
    /\ so_result = "true" => (results # <<>> /\ results[Len(results)])

C7_Witness ==
    /\ Returned
    /\ so_result = "true"
    /\ Len(results) = 3

\* C8: smart_order returns False exactly when all 5 submissions were
\* rejected; while it is in its loop every submission so far was rejected
\* (a non-zero result or an exception of the broker call) and a further
\* attempt is still to come.
C8_ExhaustedIffAllRejected ==
    /\ so_result = "false" => (Len(results) = 5 /\ AllRejected)
    /\ (Returned /\ Len(results) = 5 /\ AllRejected) => so_result = "false"
    /\ tpc = "order" => /\ attempt < 5
                        /\ Len(submitted) = attempt
                        /\ AllRejected
                        /\ attempt > 0 => send_outcome \in {"rejected", "raised"}
    /\ (Returned /\ so_result = "false") => send_outcome \in {"rejected", "raised"}

C8_Witness ==
    /\ tpc = "order"
    /\ attempt = 2
    /\ send_outcome = "raised"

\* C9: base_price is seeded with the ask (BUY) or the bid (SELL) of the
\* quote fetched at the start when that is > 0, else with the current price.
C9_BasePriceSeed ==
    [][ (tpc = "seed" /\ tpc' = "order")
          => base_price' =
               IF order_type = "BUY"
               THEN (IF ask_price > 0 THEN ask_price ELSE current_price)
               ELSE (IF bid_price > 0 THEN bid_price ELSE current_price) ]_vars

C9_Witness ==
    /\ tpc = "order"
    /\ order_type = "SELL"
    /\ base_price = 180

--------------------------------------------------------------------------
(* Properties of the signal evaluator *)

\* C10: get_signal returns BUY only when the current price (the latest
\* close) lies in the band [0.1, 0.3]; outside the band it returns HOLD.
C10_PriceBandGate ==
    signal = "BUY"
      => (10 <= price_data[Len(price_data)] /\ price_data[Len(price_data)] <= 30)

\* The stop-loss and trend-exit conditions of check_sell_conditions on the
\* strategy's own state
StrategyStopLoss ==
    (entry_price - price_data[Len(price_data)]) * 100 >= 10 * entry_price

StrategyTrendExit ==
    price_data[Len(price_data)] * 10
      < SumRange(price_data, Len(price_data) - 9, Len(price_data))

\* A step in which get_signal returns a signal other than the last one
\* (update_price_data is the one other step that changes signal, to "none")
GetSignalReturns ==
    /\ signal' # signal
    /\ signal' # "none"

\* C11: from OPEN, whenever (entry_price - latest close) / entry_price is
\* at least 0.10, get_signal returns SELL, for every non-empty price series
\* whatever its number of bars.
C11_StopLossAlwaysSells ==
    [][ ( /\ position # <<>>
          /\ price_data # <<>>
          /\ StrategyStopLoss
          /\ GetSignalReturns )
        => signal' \in {"SELL_STOP_LOSS", "SELL_TREND_EXIT"} ]_vars

\* C12: when the stop-loss condition and the trend-exit condition hold
\* together for an open position, the reason that comes with the SELL is
\* the stop-loss reason, in get_signal and in check_sell_signals of the
\* trading loop.
C12_StopLossReasonFirst ==
    [][ /\ ( /\ position # <<>>
             /\ Len(price_data) >= 10
             /\ StrategyStopLoss
             /\ StrategyTrendExit
             /\ GetSignalReturns )
          => signal' = "SELL_STOP_LOSS"
        /\ \A closes \in SellCloses, cur \in CurrentPrices, entry \in OptionPrices :
             ( /\ cur # 0
               /\ Len(closes) >= 10
               /\ closes[Len(closes)] * 10 < Sum(LastN(closes, 10))
               /\ (entry - cur) * 100 >= 10 * entry )
             => SellReason(closes, entry, cur) = "stop_loss" ]_vars

C12_Witness ==
    /\ position # <<>>
    /\ Len(price_data) >= 10
    /\ StrategyStopLoss
    /\ StrategyTrendExit
    /\ signal = "SELL_STOP_LOSS"

\* C13: from OPEN with at least 10 bars and the stop-loss condition false,
\* get_signal returns SELL with the trend-exit reason exactly when the
\* latest close is strictly below the mean of the last 10 closes;
\* otherwise it returns HOLD, and the position stays open.
C13_TrendExitIffBelowMA ==
    [][ ( /\ position # <<>>
          /\ Len(price_data) >= 10
          /\ ~StrategyStopLoss
          /\ GetSignalReturns )
        => /\ signal' = (IF StrategyTrendExit THEN "SELL_TREND_EXIT" ELSE "HOLD")
           /\ position' = position ]_vars

C13_Witness ==
    /\ position # <<>>
    /\ Len(price_data) >= 10
    /\ ~StrategyStopLoss
    /\ StrategyTrendExit
    /\ signal = "SELL_TREND_EXIT"

\* C14: get_signal is idempotent and changes no state: it leaves position,
\* entry_price, entry_time and price_data as they were, and a second call
\* right after it, on the same price series and position, returns the
\* same signal.
C14_GetSignalIdempotent ==
    [][ GetSignalReturns
        => /\ UNCHANGED <<position, entry_price, entry_time, price_data>>
           /\ get_signal(position', entry_price', price_data') = signal' ]_vars

C14_Witness ==
    /\ position # <<>>
    /\ entry_time = "set"
    /\ Len(price_data) >= 10
    /\ signal = "SELL_TREND_EXIT"
    /\ get_signal(position, entry_price, price_data) = "SELL_TREND_EXIT"

\* The indicators at the latest bar of the strategy's price series
IndicatorsDefined ==
    /\ Len(price_data) >= 100
    /\ ~ConvergenceIsNone(price_data)
    /\ ~BandwidthIsNone(price_data)
    /\ ~HistoricalLowestIsNone(price_data)
    /\ RollingMinDefined(100, 100, Len(price_data))

\* maConvergence <= latestClose * 0.01
ConvergenceHolds ==
    Convergence(price_data, Len(price_data)) * 100
      <= price_data[Len(price_data)] * MAScale

\* currentBandwidth <= historicalMinBandwidth * 1.10 (both sides squared)
SqueezeHolds ==
    BandwidthSq(price_data, Len(price_data)) * 100
      <= RollingMinSq(price_data, 100, Len(price_data)) * 121

\* C15: from FLAT with defined indicators get_signal returns BUY exactly
\* when maConvergence <= latestClose * 0.01 and currentBandwidth <=
\* historicalMinBandwidth * 1.10 both hold; when either fails it returns
\* HOLD.
C15_EntryIffBothConditions ==
    [][ ( /\ position = <<>>
          /\ IndicatorsDefined
          /\ GetSignalReturns )
        => signal' = (IF ConvergenceHolds /\ SqueezeHolds THEN "BUY" ELSE "HOLD") ]_vars

C15_Witness ==
    /\ position = <<>>
    /\ IndicatorsDefined
    /\ ConvergenceHolds
    /\ ~SqueezeHolds
    /\ signal = "HOLD"

\* the other way round: squeeze without convergence
C15_WitnessNoConvergence ==
    /\ position = <<>>
    /\ IndicatorsDefined
    /\ ~ConvergenceHolds
    /\ SqueezeHolds
    /\ signal = "HOLD"

\* C16: insufficient data is never a BUY.  Below 60 bars
\* calculate_ma_convergence reports no value, and below max(60, 100) bars
\* get_signal from FLAT returns HOLD.
C16_InsufficientDataHolds ==
    [][ /\ Len(price_data) < 60 => ConvergenceIsNone(price_data)
        /\ ( /\ position = <<>>
             /\ Len(price_data) < 100
             /\ GetSignalReturns )
           => signal' = "HOLD" ]_vars

C16_Witness ==
    /\ position = <<>>
    /\ Len(price_data) >= 60
    /\ Len(price_data) < 100
    /\ ~ConvergenceIsNone(price_data)
    /\ signal = "HOLD"

\* historical_lowest of calculate_bollinger_bands has a value at the latest
\* bar: it is not None and not NaN
HistoricalLowestDefined ==
    /\ ~BandwidthIsNone(price_data)
    /\ ~HistoricalLowestIsNone(price_data)
    /\ RollingMinDefined(100, 100, Len(price_data))

\* The bandwidths that exist among the last 100 bars
AvailableBandwidths ==
    { BandwidthSq(price_data, j) :
        j \in { k \in 1..Len(price_data) : k >= 20 /\ k > Len(price_data) - 100 } }

\* C17: the historical minimum bandwidth is a progressive minimum with
\* min-periods 1: from 20 bars on it is defined at the latest bar, in
\* calculate_bollinger_bands of the strategy and in
\* calculate_historical_bb_width, and it is the least of the bandwidths
\* available in the trailing 100-bar window.
C17_HistoricalMinProgressive ==
    Len(price_data) >= 20
      => /\ HistoricalLowestDefined
         /\ Historical_Min_BB_Width_Defined(price_data, Len(price_data))
         /\ \A w \in AvailableBandwidths :
              RollingMinSq(price_data, 100, Len(price_data)) <= w
         /\ RollingMinSq(price_data, 100, Len(price_data)) \in AvailableBandwidths

\* C18: when the historical minimum bandwidth is defined at the latest
\* bar, it does not exceed any of the last 100 bandwidth values ending at
\* that bar, and so not the current bandwidth of that bar.
C18_HistoricalMinBelowWindow ==
    HistoricalLowestDefined
      => LET n == Len(price_data)
             historical_lowest == RollingMinSq(price_data, 100, n)
         IN  /\ \A j \in (n - 99)..n : historical_lowest <= BandwidthSq(price_data, j)
             /\ historical_lowest <= BandwidthSq(price_data, n)

C18_Witness ==
    /\ position = <<>>
    /\ signal = "HOLD"
    /\ HistoricalLowestDefined
    /\ RollingMinSq(price_data, 100, Len(price_data))
         < BandwidthSq(price_data, Len(price_data))

ConstantClose == \A i \in DOMAIN price_data : price_data[i] = price_data[1]

\* C19: for a series of constant close with enough bars for the indicators
\* to be defined, the convergence value is 0 and the current bandwidth is
\* 0, so the convergence and squeeze conditions both hold and
\* check_buy_conditions is true.
C19_FlatSeriesMeetsEntry ==
    (ConstantClose /\ IndicatorsDefined)
      => /\ Convergence(price_data, Len(price_data)) = 0
         /\ BandwidthSq(price_data, Len(price_data)) = 0
         /\ ConvergenceHolds
         /\ SqueezeHolds
         /\ check_buy_conditions(price_data)

C19_Witness ==
    /\ ConstantClose
    /\ IndicatorsDefined
    /\ position = <<>>
    /\ signal = "BUY"

--------------------------------------------------------------------------
(* Properties of the market-hours gate *)

\* A clock reading on a weekend or outside [09:00, 15:20)
OutsideTradingWindow(t) == t.weekday >= 5 \/ t.minute < 540 \/ t.minute >= 920

\* C20: a cycle that starts on a weekend or at a time outside the
\* half-open window [09:00, 15:20), 15:20 itself being outside, fetches
\* no data, evaluates no indicator and submits no order: the trading
\* thread's next step is the sleep before the re-check.
C20_MarketHoursGate ==
    [][ (tpc = "gate" /\ OutsideTradingWindow(now) /\ tpc' # tpc)
          => /\ tpc' = "sleep"
             /\ UNCHANGED <<positions, orderVars>> ]_vars

--------------------------------------------------------------------------
(* Properties of the cycle: errors, skips and order of steps *)

\* A pass of check_buy_signals or check_sell_signals ends in its except
\* block
PassRaises == tpc \in {"buy", "sell"} /\ idx' # idx /\ fault' = "raised"

\* The order execution of the position in hand failed with the broker
\* call raising: smart_order returned False, its last send_order met an
\* exception
SellExecutionRaised ==
    tpc = "sell_return" /\ so_result = "false" /\ send_outcome = "raised"

IterationStarted == tpc = "gate"

\* C22: a runtime error inside a cycle never ends the trading loop.  While
\* is_running stays true, after a cycle that failed (an exception caught
\* by a pass or by trading_loop itself) another iteration is started in the
\* end; the loop ends only from its while condition, with is_running false.
C22_LoopSurvivesErrors ==
    /\ [][ tpc' = "done" => (tpc \in {"loop", "done"} /\ ~is_running) ]_vars
    /\ (fault \in {"raised", "loop_error"}) ~> (IterationStarted \/ ~is_running)

C22_Witness ==
    /\ IterationStarted
    /\ is_running
    /\ fault = "loop_error"
    /\ positions # <<>>

\* C23: for one instrument within a cycle the steps come in order: the
\* pass that fetches the data, evaluates and decides; then the order
\* execution; then the change of the position map.  smart_order starts
\* only from the pass of that instrument, it returns only from its own
\* loop with a result, and the position map (with the list of positions to
\* remove) changes for an instrument only after the result of that
\* instrument's order execution is known.
C23_PipelineOrder ==
    [][ /\ (tpc' = "seed" /\ tpc # "seed")
           => /\ tpc \in {"buy", "sell"}
              /\ so_code' = IF tpc = "buy" THEN selected_options[idx].code
                            ELSE positions[idx].code
              /\ submitted' = <<>>
              /\ positions' = positions
        /\ (Returned' /\ ~Returned)
           => /\ tpc \in {"order", "ack_wait"}
              /\ so_result' \in {"true", "false"}
              /\ submitted' # <<>>
        /\ (positions' # positions /\ Len(positions') >= Len(positions))
           => /\ tpc = "buy_return"
              /\ so_result = "true"
              /\ \A r \in Range(positions') \ Range(positions) : r.code = so_code
        /\ Len(positions_to_close') > Len(positions_to_close)
           => /\ tpc = "sell_return"
              /\ so_result \in {"true", "false"}
              /\ positions_to_close' = Append(positions_to_close, so_code)
        /\ Len(positions') < Len(positions)
           => /\ tpc = "sell"
              /\ idx > Len(positions)
              /\ \A r \in Range(positions) \ Range(positions') :
                   r.code \in Range(positions_to_close) ]_vars

C23_Witness ==
    /\ tpc = "sleep"
    /\ positions_to_close # <<>>
    /\ Len(positions) = 1
    /\ positions[1].code \notin Range(positions_to_close)

NoDataSkip ==
    /\ tpc \in {"buy", "sell"}
    /\ fault' = "no_data"
    /\ <<idx, fault>>' # <<idx, fault>>

C24_DelayBetweenAttempts ==
    [][ (submitted # <<>> /\ Len(submitted') = Len(submitted) + 1)
           => tpc = "ack_wait" ]_vars

\* C30: every order smart_order submits is a limit order at the ladder
\* price: for every quote, last price and attempt the price handed to
\* send_order is strictly positive, never 0 (which send_order transmits as
\* a market order) and never negative.
C30_SubmittedPricePositive ==
    \A k \in DOMAIN submitted : submitted[k] > 0

\* Properties of the configuration.

Malformed(cfg) ==
    \/ cfg.MIN_OPTION_PRICE >= cfg.MAX_OPTION_PRICE
    \/ cfg.period1 >= cfg.period2
    \/ cfg.period2 >= cfg.period3
    \/ cfg.stop_loss_percent <= 0
    \/ cfg.stop_loss_percent > 50
    \/ Len(cfg.ACCOUNT_NO) < 8

\* C25: a malformed configuration is rejected at startup: validate_config
\* raises for it, the trading loop never starts and no order is ever
\* submitted under it.
C25_MalformedConfigRejected ==
    Malformed(config)
       => /\ ~validate_config(config)
          /\ tpc = "unstarted"
          /\ ~is_running
          /\ submitted = <<>>

PositionCreated ==
    /\ tpc = "buy_return"
    /\ so_result = "true"
    /\ positions' # positions

SuccessfulExit == tpc = "sell_return" /\ so_result = "true" /\ tpc' = "sell"

FlatScenario == Shape(150, 20, 0)
DroppedScenario == WithLast(FlatScenario, 17)

C31_PositionsWellFormed ==
    /\ \A i \in DOMAIN positions :
         /\ positions[i].quantity >= 1
         /\ positions[i].entry_price > 0
    /\ order_type = "BUY" => so_quantity >= 1

C31_Witness ==
    /\ positions # <<>>
    /\ positions[1].quantity = 1
    /\ order_type = "BUY"
    /\ so_quantity = 1

\* Properties of one smart_order invocation: submissions, termination, frame.

\* How far an invocation has come: it grows with every step of smart_order
\* and is bounded, so an invocation takes at most 2 * MaxAttempts + 2 steps.
SmartOrderProgress ==
    CASE tpc = "seed"     -> 0
      [] tpc = "order"    -> 1 + 2 * Len(submitted)
      [] tpc = "ack_wait" -> 2 * Len(submitted)
      [] OTHER            -> 2 * MaxAttempts + 2

SmartOrderStep == InSmartOrder /\ <<tpc, orderVars>>' # <<tpc, orderVars>>

\* C32: an invocation of smart_order submits exactly one order per attempt
\* made and at most MaxAttempts in all; it terminates (every step of it
\* advances a bounded measure); it starts from nothing a former invocation
\* left; and it changes neither KiwoomAPI.current_positions and
\* order_history nor the trader's position map.
C32_SmartOrderFrame ==
    /\ [](Len(submitted) <= MaxAttempts /\ Len(results) = Len(submitted))
    /\ [](tpc = "order" => Len(submitted) = attempt)
    /\ [][ SmartOrderStep
             => /\ SmartOrderProgress' > SmartOrderProgress
                /\ SmartOrderProgress' <= 2 * MaxAttempts + 2
                /\ IF tpc = "order"
                   THEN Len(submitted') = Len(submitted) + 1
                   ELSE submitted' = submitted
                /\ UNCHANGED <<positions, positions_to_close, selected_options,
                               current_positions, order_history>> ]_vars
    /\ [][ (tpc' = "seed" /\ tpc # "seed")
             => /\ attempt' = 0
                /\ submitted' = <<>>
                /\ results' = <<>>
                /\ so_result' = "none"
                /\ UNCHANGED <<positions, current_positions, order_history>> ]_vars

C32_Witness ==
    /\ Returned
    /\ so_result = "false"
    /\ Len(submitted) = MaxAttempts
    /\ positions # <<>>
    /\ order_history = <<>>

\* Properties of the passes: one execution invocation per instrument.

DistinctCodes(d) ==
    \A i \in DOMAIN d : \A j \in DOMAIN d : d[i].code = d[j].code => i = j

SmartOrderInvoked == tpc \in {"buy", "sell"} /\ tpc' = "seed"

\* C33: per cycle at most one smart_order BUY is invoked for an instrument,
\* and only when it is not held; at most one smart_order SELL for a held
\* instrument, with the quantity stored in its Position.  A pass visits
\* the instruments by an index that only moves forward: the invocation is
\* for the instrument at the index, the index moves on when it returns, and
\* the instruments of a pass have distinct codes.
C33_OneInvocationPerInstrument ==
    /\ [](DistinctCodes(selected_options) /\ DistinctCodes(positions))
    /\ [][ (SmartOrderInvoked /\ tpc = "buy")
             => /\ order_type' = "BUY"
                /\ so_code' = selected_options[idx].code
                /\ ~HasPosition(positions, so_code')
                /\ idx' = idx ]_vars
    /\ [][ (SmartOrderInvoked /\ tpc = "sell")
             => /\ order_type' = "SELL"
                /\ so_code' = positions[idx].code
                /\ so_quantity' = positions[idx].quantity
                /\ idx' = idx ]_vars
    /\ [][ (Returned /\ tpc' # tpc)
             => /\ tpc' = (IF tpc = "buy_return" THEN "buy" ELSE "sell")
                /\ idx' = idx + 1 ]_vars
    /\ [][ (InSmartOrder \/ Returned)
             => /\ UNCHANGED <<so_code, order_type, so_quantity>> \/ (Returned /\ tpc' # tpc)
                /\ idx' = idx \/ (Returned /\ tpc' # tpc) ]_vars
    /\ [][ (tpc \in {"buy", "sell"} /\ tpc' = tpc) => idx' >= idx ]_vars
    /\ [][ (order_type = "SELL" \/ tpc = "sell") /\ positions' # positions
             => tpc' = "sleep" ]_vars

C33_Witness ==
    /\ tpc = "sell_return"
    /\ idx = 2
    /\ so_quantity = positions[2].quantity
    /\ positions[1].code \in Range(positions_to_close)

\* Properties of the evaluator's state fields.

\* C34: after any sequence of update_price_data, get_signal, enter_position
\* and exit_position the three state fields agree: position is None iff
\* entry_price is 0 iff entry_time is None; and a position that is not None
\* carries the strategy's entry_price, which lies in [0.1, 0.3].
C34_StateFieldsAgree ==
    /\ (position = <<>>) <=> (entry_price = 0)
    /\ (position = <<>>) <=> (entry_time = "None")
    /\ position # <<>>
         => /\ position[1].entry_price = entry_price
            /\ PriceRangeLow <= entry_price
            /\ entry_price <= PriceRangeHigh

C34_Witness ==
    /\ position # <<>>
    /\ entry_price = PriceRangeHigh
    /\ price_data # <<>>
    /\ signal = "HOLD"

\* C35: get_signal respects the state: with no position it returns only BUY
\* or HOLD, never SELL; with a position it returns only SELL (with its
\* reason) or HOLD, never BUY.
C35_SignalRespectsState ==
    [][ GetSignalReturns
          => IF position = <<>>
             THEN signal' \in {"BUY", "HOLD"}
             ELSE signal' \in {"SELL_STOP_LOSS", "SELL_TREND_EXIT", "HOLD"} ]_vars

C35_Witness ==
    /\ position # <<>>
    /\ check_buy_conditions(price_data)
    /\ signal = "HOLD"

EnterPositionCalled == enter_call' # enter_call /\ enter_call' # <<>>

\* C36: enter_position called with a price outside [0.1, 0.3] returns False
\* and leaves position, entry_price and entry_time unchanged; called with a
\* price inside the band, bounds included, it returns True and sets a
\* position with that entry price and quantity 1.
C36_EnterPositionBand ==
    [][ EnterPositionCalled
          => LET call == enter_call'[1] IN
             IF PriceRangeLow <= call.current_price
                  /\ call.current_price <= PriceRangeHigh
             THEN /\ call.returned
                  /\ position' # <<>>
                  /\ position'[1].entry_price = call.current_price
                  /\ position'[1].quantity = 1
                  /\ entry_price' = call.current_price
                  /\ entry_time' = "set"
             ELSE /\ ~call.returned
                  /\ UNCHANGED <<position, entry_price, entry_time>> ]_vars

C36_Witness ==
    /\ enter_call # <<>>
    /\ enter_call[1].current_price > PriceRangeHigh
    /\ ~enter_call[1].returned
    /\ position # <<>>
    /\ entry_price = PriceRangeLow

\* Properties of the loop's termination.

\* The most steps one pass over an instrument takes: the evaluation, the
\* steps of smart_order, the return.
StepsPerPass == 2 * MaxAttempts + 4

StepsLeftInSmartOrder == (2 * MaxAttempts + 2) - SmartOrderProgress + 1

\* A bound on the steps the trading thread still takes once is_running is
\* False: the rest of the pass, of check_buy_signals and check_sell_signals,
\* the sleep and the loop condition.
StepsLeftInSell ==
    3 + (IF tpc = "sell"
         THEN (Len(positions) - idx + 1) * StepsPerPass
         ELSE (Len(positions) - idx) * StepsPerPass + StepsLeftInSmartOrder)

StepsLeftInBuy ==
    4 + (MaxOptions + 1) * StepsPerPass
      + (IF tpc = "buy"
         THEN (Len(selected_options) - idx + 1) * StepsPerPass
         ELSE (Len(selected_options) - idx) * StepsPerPass + StepsLeftInSmartOrder)

StepsLeft ==
    CASE tpc \in {"done", "unstarted"} -> 0
      [] tpc = "loop"  -> 1
      [] tpc = "sleep" -> 2
      [] tpc = "gate"  -> 5 + 2 * (MaxOptions + 1) * StepsPerPass
      [] tpc = "sell" \/ (tpc \notin {"buy", "buy_return"} /\ order_type = "SELL")
                       -> StepsLeftInSell
      [] OTHER         -> StepsLeftInBuy

\* A step of the trading thread (Start, of the main thread, is the step that
\* leaves "unstarted")
TradingThreadStep ==
    /\ tpc # "unstarted"
    /\ <<tpc, idx, orderVars>>' # <<tpc, idx, orderVars>>

\* C37: after is_running is set to False the trading loop terminates, under
\* fairness of the trading thread.  Every step the thread takes from then
\* on lowers a bound on the steps left (the sleeps end, a smart_order
\* invocation and a pass are bounded); the loop condition is what follows
\* every sleep, after a cycle and after an out-of-hours wait alike, and it
\* leaves the loop when is_running is False.
C37_StopTerminatesLoop ==
    /\ [][ (~is_running /\ TradingThreadStep) => StepsLeft' < StepsLeft ]_vars
    /\ [](StepsLeft >= 0)
    /\ [][ (tpc = "sleep" /\ tpc' # tpc) => tpc' = "loop" ]_vars
    /\ [][ (tpc = "loop" /\ tpc' # tpc)
             => tpc' = (IF is_running THEN "gate" ELSE "done") ]_vars
    /\ (~is_running /\ tpc # "unstarted") ~> (tpc = "done")

C37_Witness ==
    /\ tpc = "done"
    /\ ~is_running
    /\ positions # <<>>
    /\ mpc = "stopped"

==========================================================================
